---- MODULE Spec2Model ----
(***************************************************************************)
(* Model of the VQE tutorial notebook (fall2019/07vqe): the Pauli          *)
(* expectation estimator `expectation`, the Hamiltonian cost function      *)
(* `cost`, the ansatz builder `VQE_circuit`, the objective of cell 21 and  *)
(* the bond-length sweep of cell 28.                                       *)
(*                                                                         *)
(* Strings are sequences of one-character strings.  A circuit is a record  *)
(* [qregs, cregs, gates]: the sizes of its quantum registers, the sizes of *)
(* its classical registers and its gate list.  A returned number is kept   *)
(* as the fraction num/den the code computes.                              *)
(***************************************************************************)
EXTENDS Integers, Sequences, FiniteSets, TLC

VARIABLES
    circuit,        \* expectation: the caller's circuit (argument `circuit`)
    pauli_string,   \* expectation: the string the caller passed
    shots,          \* expectation: the shot count the caller passed
    temp,           \* expectation: gate list of the working copy `temp`
    ident,          \* expectation: the list `ident`
    counts,         \* expectation: the counts the backend returned
    backend_runs,   \* expectation: number of calls of qis.execute
    out,            \* expectation: how the call ended
    epc,            \* expectation: "ready" before the call, "done" after
    caller_gates,   \* expectation: gate list of the caller's circuit object
    ccircuit,       \* cost: argument `circuit`
    cweights,       \* cost: argument `weights`
    cpaulis,        \* cost: argument `paulis`
    cost_terms,     \* cost: the values expectation returned to this call, in order
    cost_out,       \* cost: how the call ended
    cpc,            \* cost: "ready" before the call, "done" after
    table,          \* notebook global `table`
    radii,          \* notebook global `radii`
    coeffs,         \* notebook global `coeffs`
    H2_paulis,      \* notebook global `H2_paulis`: no cell of the notebook binds it
    weights,        \* notebook global `weights`: no cell of the notebook binds it
    reduced,        \* how often cell 9 ran since cell 7 bound `table`
    obj,            \* notebook global `obj`: "cell21" (the def) or "cell28" (the lambda)
    r,              \* notebook global `r`, the loop variable of cell 28
    pos,            \* cell 28: position of the iterator over range(len(radii))
    energies,       \* notebook global `energies`
    evals,          \* the calls of obj made by the running minimize, in order
    result,         \* notebook global `result` of cell 23
    pc,             \* "idle", "min23", "loop28" or "min28"; "call" when obj is
                    \* applied on its own
    ended           \* the last cell that ended and how

evars == <<circuit, pauli_string, shots, temp, ident, counts, backend_runs, out, epc,
          caller_gates>>

cvars == <<ccircuit, cweights, cpaulis, cost_terms, cost_out, cpc>>

gvars == <<table, radii, coeffs, H2_paulis, weights, reduced>>

nvars == <<obj, r, pos, energies, evals, result, pc, ended>>

vars == <<evars, cvars, gvars, nvars>>

----------------------------------------------------------------------------
(* Bounds of the model *)

MaxQubits == 2      \* largest register size
MaxRegs == 2        \* largest number of registers of one kind in a circuit
MaxLen == 3         \* longest Pauli string passed by a caller
MaxShots == 2       \* largest shot count
MaxTerms == 3       \* longest weights / paulis list passed to cost directly
MaxTheta == 2       \* obj is called at the angles -MaxTheta..MaxTheta
MaxEvals == 3       \* most calls of obj by one run of minimize
MaxReduce == 3      \* most runs of cell 9 on one table

Alphabet == {"I", "X", "Y", "Z", "x", "Q", " "}

----------------------------------------------------------------------------
(* Helpers *)

RECURSIVE SumSeq(_)
SumSeq(s) == IF s = <<>> THEN 0 ELSE Head(s) + SumSeq(Tail(s))

RECURSIVE SumOver(_, _)
SumOver(f, S) ==
    IF S = {} THEN 0
    ELSE LET x == CHOOSE y \in S : TRUE IN f[x] + SumOver(f, S \ {x})

Repeat(x, n) == [i \in 1..n |-> x]

Strings(A, n) == UNION {[1..k -> A] : k \in 0..n}

----------------------------------------------------------------------------
(* Python str methods used by expectation *)

UpperChar(ch) == IF ch = "x" THEN "X" ELSE ch

Upper(s) == [i \in 1..Len(s) |-> UpperChar(s[i])]

IsSpace(ch) == ch = " "

RECURSIVE LStrip(_)
LStrip(s) == IF s # <<>> /\ IsSpace(Head(s)) THEN LStrip(Tail(s)) ELSE s

RECURSIVE RStrip(_)
RStrip(s) ==
    IF s # <<>> /\ IsSpace(s[Len(s)]) THEN RStrip(SubSeq(s, 1, Len(s) - 1)) ELSE s

Strip(s) == RStrip(LStrip(s))

\* pauli_string.upper().strip()
Normalize(s) == Strip(Upper(s))

----------------------------------------------------------------------------
(* Circuits and gates *)

None == <<"none", 0>>
HalfPi(k) == <<"pi/2", k>>
Rad(theta) == <<"rad", theta>>

\* a gate on qubits q of the first quantum register; c: classical bits written
Gate(name, param, q, c) == [g |-> name, p |-> param, q |-> q, c |-> c]

H(qubit) == Gate("h", None, <<qubit>>, <<>>)
S(qubit) == Gate("s", None, <<qubit>>, <<>>)
Measure(qubit, cbit) == Gate("measure", None, <<qubit>>, <<cbit>>)

\* register lists: the first register has any size, further registers one bit
RegLists ==
    {<<>>} \cup {<<a>> \o Repeat(1, k) : a \in 1..MaxQubits, k \in 0..(MaxRegs - 1)}

PriorGates(qregs) ==
    IF qregs = <<>> THEN <<>> ELSE <<Gate("x", None, <<0>>, <<>>)>>

Circuits ==
    {[qregs |-> q, cregs |-> c, gates |-> PriorGates(q)] : q \in RegLists, c \in RegLists}

----------------------------------------------------------------------------
(* expectation(circuit, pauli_string, shots) *)

Return(num, den) == [kind |-> "return", err |-> "none", num |-> num, den |-> den]
Raise(err) == [kind |-> "raise", err |-> err, num |-> 0, den |-> 1]
Pending == [kind |-> "pending", err |-> "none", num |-> 0, den |-> 1]

\* if len(circuit.qregs) != 1
QregsOk(c) == Len(c.qregs) = 1

\* variant: a circuit with several classical registers is let through
CregsOkAtLeastOne(c) == Len(c.cregs) >= 1

\* if len(circuit.cregs) != 1
CregsOk(c) == Len(c.cregs) = 1

\* variant: only a string that is too long is rejected
LengthOkNotLonger(ps, nqubits) == Len(ps) <= nqubits

\* if len(pauli_string) != nqubits, on the normalized string
LengthOk(ps, nqubits) == Len(ps) = nqubits

\* creg[qubit]: indexing a register past its size fails
CbitOk(qubit, csize) == qubit < csize

\* variant: for Y the Hadamard comes before the phase gate
BasisChangeSwapped(pauli, qubit) ==
    CASE pauli = "X" -> <<H(qubit)>>
      [] pauli = "Y" -> <<H(qubit), S(qubit)>>
      [] OTHER -> <<>>

\* the gates one symbol appends to temp before the measurement
BasisChange(pauli, qubit) ==
    CASE pauli = "X" -> <<H(qubit)>>
      [] pauli = "Y" -> <<S(qubit), H(qubit)>>
      [] OTHER -> <<>>

\* variant: the final else branch is missing, any other symbol is measured like Z
IsPauliNoElse(pauli) == TRUE

\* the symbols the if/elif chain handles; anything else reaches the final else
IsPauli(pauli) == pauli \in {"I", "X", "Y", "Z"}

\* the loop over enumerate(pauli_string), from position qubit on
RECURSIVE PauliLoop(_, _, _, _)
PauliLoop(ps, qubit, csize, st) ==
    IF qubit >= Len(ps) THEN st
    ELSE LET pauli == ps[qubit + 1] IN
         IF pauli = "I"
         THEN PauliLoop(ps, qubit + 1, csize,
                        [st EXCEPT !.ident = Append(@, 1)])
         ELSE IF IsPauli(pauli)
         THEN IF CbitOk(qubit, csize)
              THEN PauliLoop(ps, qubit + 1, csize,
                     [st EXCEPT !.ident = Append(@, 0),
                                !.temp = @ \o BasisChange(pauli, qubit)
                                           \o <<Measure(qubit, qubit)>>])
              ELSE [st EXCEPT !.ident = Append(@, 0),
                              !.temp = @ \o BasisChange(pauli, qubit),
                              !.err = "index"]
         ELSE [st EXCEPT !.err = "symbol"]

\* variant: the test is inverted
AllIdentInverted(id) == ~(\A i \in 1..Len(id) : id[i] # 0)

\* all(ident) == True
AllIdent(id) == \A i \in 1..Len(id) : id[i] # 0

\* variant: temp = circuit, the same object
CallerGatesAliased(c, g) == g

\* temp = circuit.copy(): what the caller's circuit holds once temp holds the
\* gates g; the copy is an object of its own
CallerGatesAfter(c, g) == c.gates

\* everything expectation does before it calls the backend
Prepare(c, s) ==
    LET st0 == [temp |-> c.gates, ident |-> <<>>, err |-> "none"] IN
    IF ~QregsOk(c) THEN [st0 EXCEPT !.err = "qregs"]
    ELSE IF ~CregsOk(c) THEN [st0 EXCEPT !.err = "cregs"]
    ELSE LET nqubits == c.qregs[1]
             ps == Normalize(s)
         IN  IF ~LengthOk(ps, nqubits) THEN [st0 EXCEPT !.err = "length"]
             ELSE PauliLoop(ps, 0, c.cregs[1], st0)

\* classical bits some measure gate of the gate list writes
MeasuredBits(gates) == {gates[i].c[1] : i \in {j \in 1..Len(gates) : gates[j].g = "measure"}}

\* the bitstrings the backend can report: one character per classical bit,
\* bit 0 rightmost, bits no measurement writes stay "0"
Bitstrings(gates, csize) ==
    {b \in [1..csize -> {"0", "1"}] :
        \A cbit \in 0..(csize - 1) : cbit \notin MeasuredBits(gates) => b[csize - cbit] = "0"}

\* job.result().get_counts(): the shots distributed over the bitstrings
BackendCounts(gates, csize, n) ==
    {cnt \in [Bitstrings(gates, csize) -> 0..n] : SumOver(cnt, DOMAIN cnt) = n}

\* bitstring.count(ch)
Count(bitstring, ch) == Cardinality({i \in 1..Len(bitstring) : bitstring[i] = ch})

\* variant: a product where the code has a power
SignProduct(bitstring) == (-1) * Count(bitstring, "0")

\* sign = (-1) ** bitstring.count("0")
Sign(bitstring) == IF Count(bitstring, "0") % 2 = 0 THEN 1 ELSE -1

\* val = sum of sign * count over counts.items()
Val(cnt) == SumOver([b \in DOMAIN cnt |-> Sign(b) * cnt[b]], DOMAIN cnt)

\* return val / shots
PostProcess(cnt, n) == Return(Val(cnt), n)

NoCounts == [b \in {} |-> 0]

Expectation ==
    /\ epc = "ready"
    /\ LET st == Prepare(circuit, pauli_string) IN
       /\ temp' = st.temp
       /\ ident' = st.ident
       /\ caller_gates' = CallerGatesAfter(circuit, st.temp)
       /\ IF st.err # "none"
          THEN /\ out' = Raise(st.err)
               /\ counts' = NoCounts
               /\ backend_runs' = backend_runs
          ELSE IF AllIdent(st.ident)
          THEN /\ out' = Return(1, 1)
               /\ counts' = NoCounts
               /\ backend_runs' = backend_runs
          ELSE \E cnt \in BackendCounts(st.temp, circuit.cregs[1], shots) :
               /\ counts' = cnt
               /\ backend_runs' = backend_runs + 1
               /\ out' = PostProcess(cnt, shots)
    /\ epc' = "done"
    /\ UNCHANGED <<circuit, pauli_string, shots, cvars, gvars, nvars>>

----------------------------------------------------------------------------
(* Cell 7: the table, one row <<R, g0, .., g5>> per bond length, every number *)
(* multiplied by 100000                                                      *)

Table == <<
    <<20000, 284890, 56780, -145080, 67990, 7910, 7910>>,
    <<25000, 218680, 54490, -128700, 67190, 7980, 7980>>,
    <<30000, 172520, 52150, -114580, 66310, 8060, 8060>>,
    <<35000, 138270, 49820, -102260, 65370, 8150, 8150>>,
    <<40000, 111820, 47540, -91450, 64380, 8250, 8250>>,
    <<45000, 90830, 45340, -81940, 63360, 8350, 8350>>,
    <<50000, 73810, 43250, -73550, 62330, 8460, 8460>>,
    <<55000, 59790, 41250, -66120, 61290, 8580, 8580>>,
    <<60000, 48080, 39370, -59500, 60250, 8700, 8700>>,
    <<65000, 38190, 37600, -53580, 59210, 8830, 8830>>,
    <<70000, 29760, 35930, -48260, 58180, 8960, 8960>>,
    <<75000, 22520, 34350, -43470, 57160, 9100, 9100>>,
    <<80000, 16260, 32880, -39150, 56160, 9250, 9250>>,
    <<85000, 10830, 31490, -35230, 55180, 9390, 9390>>,
    <<90000, 6090, 30180, -31680, 54210, 9540, 9540>>,
    <<95000, 1930, 28950, -28450, 53270, 9700, 9700>>,
    <<100000, -1720, 27790, -25500, 52350, 9860, 9860>>,
    <<105000, -4930, 26690, -22820, 51460, 10020, 10020>>,
    <<110000, -7780, 25650, -20360, 50590, 10180, 10180>>,
    <<115000, -10290, 24670, -18100, 49740, 10340, 10340>>,
    <<120000, -12530, 23740, -16030, 48920, 10500, 10500>>,
    <<125000, -14520, 22860, -14130, 48120, 10670, 10670>>,
    <<130000, -16290, 22030, -12380, 47350, 10830, 10830>>,
    <<135000, -17860, 21230, -10770, 46600, 11000, 11000>>,
    <<140000, -19270, 20480, -9290, 45880, 11160, 11160>>,
    <<145000, -20530, 19760, -7920, 45180, 11330, 11330>>,
    <<150000, -21650, 19080, -6660, 44510, 11490, 11490>>,
    <<155000, -22650, 18430, -5490, 43860, 11650, 11650>>,
    <<160000, -23550, 17820, -4420, 43230, 11810, 11810>>,
    <<165000, -24360, 17230, -3420, 42620, 11960, 11960>>,
    <<170000, -25080, 16670, -2510, 42040, 12110, 12110>>,
    <<175000, -25730, 16150, -1660, 41480, 12260, 12260>>,
    <<180000, -26320, 15650, -880, 40940, 12410, 12410>>,
    <<185000, -26840, 15170, -150, 40420, 12560, 12560>>,
    <<190000, -27310, 14720, 520, 39920, 12700, 12700>>,
    <<195000, -27740, 14300, 1140, 39440, 12840, 12840>>,
    <<200000, -28120, 13900, 1710, 38980, 12970, 12970>>,
    <<205000, -28470, 13520, 2230, 38530, 13100, 13100>>,
    <<210000, -28790, 13160, 2720, 38110, 13230, 13230>>,
    <<215000, -29080, 12820, 3170, 37690, 13350, 13350>>,
    <<220000, -29340, 12510, 3590, 37300, 13470, 13470>>,
    <<225000, -29580, 12210, 3970, 36920, 13590, 13590>>,
    <<230000, -29800, 11930, 4320, 36550, 13700, 13700>>,
    <<235000, -30000, 11670, 4650, 36200, 13810, 13810>>,
    <<240000, -30180, 11420, 4950, 35860, 13920, 13920>>,
    <<245000, -30350, 11190, 5230, 35530, 14020, 14020>>,
    <<250000, -30510, 10980, 5490, 35210, 14120, 14120>>,
    <<255000, -30660, 10780, 5720, 34910, 14220, 14220>>,
    <<260000, -30790, 10590, 5940, 34610, 14320, 14320>>,
    <<265000, -30920, 10420, 6140, 34330, 14410, 14410>>,
    <<270000, -31040, 10260, 6320, 34060, 14500, 14500>>,
    <<275000, -31150, 10110, 6490, 33790, 14580, 14580>>,
    <<280000, -31250, 9970, 6650, 33540, 14670, 14670>>,
    <<285000, -31350, 9840, 6790, 33290, 14750, 14750>>
>>

\* cell 9
N == 50
step == 2

Min(a, b) == IF a <= b THEN a ELSE b

\* t[start:stop:stride] for 0 <= start, 0 <= stop, stride > 0
Slice(t, start, stop, stride) ==
    LET end == Min(stop, Len(t))
        n == IF end > start THEN (end - start + stride - 1) \div stride ELSE 0
    IN  [i \in 1..n |-> t[start + (i - 1) * stride + 1]]

\* variant: the slice starts at the second row
ReduceFromSecond(t) == Slice(t, 1, N, step)

\* table[0:N:step]
Reduce(t) == Slice(t, 0, N, step)

\* table[:, 0]
Column0(t) == [i \in 1..Len(t) |-> t[i][1]]

\* table[:, 1:]
ColumnsFrom1(t) == [i \in 1..Len(t) |-> Tail(t[i])]

----------------------------------------------------------------------------
(* Cell 13: VQE_circuit(theta) *)

VQE_circuit(theta) ==
    [qregs |-> <<2>>, cregs |-> <<2>>,
     gates |-> << Gate("x", None, <<0>>, <<>>),
                  Gate("rx", HalfPi(-1), <<0>>, <<>>),
                  Gate("ry", HalfPi(1), <<1>>, <<>>),
                  Gate("cx", None, <<1, 0>>, <<>>),
                  Gate("rz", Rad(theta), <<0>>, <<>>),
                  Gate("cx", None, <<1, 0>>, <<>>),
                  Gate("rx", HalfPi(1), <<0>>, <<>>),
                  Gate("ry", HalfPi(-1), <<1>>, <<>>) >>]

----------------------------------------------------------------------------
(* Cell 17: cost(circuit, weights, paulis) *)

\* a function body that ends without a return statement returns None
ReturnNone == [kind |-> "none", err |-> "none", num |-> 0, den |-> 1]

\* variant: only too few weights are rejected
SameLengthAtLeast(w, p) == Len(w) >= Len(p)

\* if len(weights) != len(paulis)
SameLength(w, p) == Len(w) = Len(p)

\* the call: its outcome and the expectation values it estimated.  The body
\* after the length check is empty.
Cost(c, w, p) ==
    IF ~SameLength(w, p)
    THEN [out |-> Raise("length"), terms |-> <<>>]
    ELSE [out |-> ReturnNone, terms |-> <<>>]

CostCall ==
    /\ cpc = "ready"
    /\ LET res == Cost(ccircuit, cweights, cpaulis) IN
       /\ cost_out' = res.out
       /\ cost_terms' = res.terms
    /\ cpc' = "done"
    /\ UNCHANGED <<ccircuit, cweights, cpaulis, evars, gvars, nvars>>

CostIdle ==
    /\ ccircuit = [qregs |-> <<>>, cregs |-> <<>>, gates |-> <<>>]
    /\ cweights = <<>>
    /\ cpaulis = <<>>
    /\ cost_terms = <<>>
    /\ cost_out = Pending
    /\ cpc = "idle"

----------------------------------------------------------------------------
(* Cells 21, 23 and 28: the objective, one minimization, the sweep *)

\* a global name no cell has bound, and one bound to the value v
Unbound == [bound |-> FALSE, value |-> <<>>]
Bound(v) == [bound |-> TRUE, value |-> v]

\* NameError: name '...' is not defined
NameError(name) == Raise("name " \o name)

\* the exception class of an error obj raised
ExcOf(err) ==
    IF err \in {NameError("weights").err, NameError("H2_paulis").err}
    THEN "NameError" ELSE "ValueError"

\* the call cost(circ, w, p) once circ is built: the arguments are evaluated
\* from left to right, and the read of an unbound global raises NameError
\* before cost is entered.  w and p are <<name, binding>>.
CallCost(circ, w, p) ==
    IF ~w[2].bound THEN NameError(w[1])
    ELSE IF ~p[2].bound THEN NameError(p[1])
    ELSE Cost(circ, w[2].value, p[2].value).out

\* def obj(theta) of cell 21
ObjCell21(theta) ==
    LET c == VQE_circuit(0) IN
    [theta |-> theta, circ |-> c,
     en |-> CallCost(c, <<"weights", weights>>, <<"H2_paulis", H2_paulis>>)]

\* obj = lambda theta: ... of cell 28; r and coeffs are read when it is called
ObjCell28(theta) ==
    LET c == VQE_circuit(theta) IN
    [theta |-> theta, circ |-> c,
     en |-> CallCost(c, <<"coeffs[r]", Bound(coeffs[r + 1])>>, <<"H2_paulis", H2_paulis>>)]

Obj(theta) == IF obj = "cell21" THEN ObjCell21(theta) ELSE ObjCell28(theta)

IsNumber(v) == v.kind = "return"

\* a <= b for fractions with positive denominators
Leq(a, b) == a.num * b.den <= b.num * a.den

\* the optimum minimize reports: the least value obj returned, and where
Best(ev) ==
    LET i == CHOOSE j \in 1..Len(ev) : \A l \in 1..Len(ev) : Leq(ev[j].en, ev[l].en)
    IN  [fun |-> ev[i].en, x |-> ev[i].theta]

NoResult == [fun |-> Pending, x |-> 0]

Ended(cell, status, exc) == [cell |-> cell, status |-> status, exc |-> exc]

\* cell 23 starts: result = minimize(obj, x0=[0], method="Powell")
Cell23 ==
    /\ pc = "idle"
    /\ pc' = "min23"
    /\ evals' = <<>>
    /\ UNCHANGED <<obj, r, pos, energies, result, ended, evars, cvars, gvars>>

\* cell 21 is run (again): obj is the def
Cell21 ==
    /\ pc = "idle"
    /\ obj # "cell21"
    /\ obj' = "cell21"
    /\ UNCHANGED <<r, pos, energies, evals, result, pc, ended, evars, cvars, gvars>>

\* cell 28 starts: energies = [] and the iterator over range(len(radii))
Cell28 ==
    /\ pc = "idle"
    /\ energies' = <<>>
    /\ pos' = 0
    /\ pc' = "loop28"
    /\ UNCHANGED <<obj, r, evals, result, ended, evars, cvars, gvars>>

\* the for statement of cell 28: the next r and the lambda, or the end of the cell
SweepStep ==
    /\ pc = "loop28"
    /\ IF pos < Len(radii)
       THEN /\ r' = pos
            /\ obj' = "cell28"
            /\ evals' = <<>>
            /\ pc' = "min28"
            /\ UNCHANGED ended
       ELSE /\ pc' = "idle"
            /\ ended' = Ended(28, "ok", "none")
            /\ UNCHANGED <<r, obj, evals>>
    /\ UNCHANGED <<pos, energies, result, evars, cvars, gvars>>

\* the angles obj is called at
Thetas == (0 - MaxTheta)..MaxTheta

\* minimize ends after the calls ev of obj: with its optimum when obj returned
\* numbers, with a TypeError when obj returned None
MinimizeEnds(ev) ==
    IF \A i \in 1..Len(ev) : IsNumber(ev[i].en)
    THEN IF pc = "min23"
         THEN /\ result' = Best(ev)
              /\ pc' = "idle"
              /\ ended' = Ended(23, "ok", "none")
              /\ UNCHANGED <<energies, pos>>
         ELSE /\ energies' = Append(energies, Best(ev).fun)
              /\ pos' = pos + 1
              /\ pc' = "loop28"
              /\ UNCHANGED <<result, ended>>
    ELSE /\ pc' = "idle"
         /\ ended' = Ended(IF pc = "min23" THEN 23 ELSE 28, "failed", "TypeError")
         /\ UNCHANGED <<result, energies, pos>>

\* the minimizer calls obj: first at x0 = 0, then where it chooses.  An
\* exception raised by obj ends the cell; after a call that returned, the
\* minimizer goes on to a later call or ends.
ObjCall ==
    /\ pc \in {"min23", "min28"}
    /\ Len(evals) < MaxEvals
    /\ \E theta \in Thetas :
         /\ evals = <<>> => theta = 0
         /\ LET e == Obj(theta) IN
            /\ evals' = Append(evals, e)
            /\ IF e.en.kind = "raise"
               THEN /\ pc' = "idle"
                    /\ ended' = Ended(IF pc = "min23" THEN 23 ELSE 28, "failed",
                                      ExcOf(e.en.err))
                    /\ UNCHANGED <<result, energies, pos>>
               ELSE \/ /\ Len(evals') < MaxEvals
                       /\ UNCHANGED <<pc, ended, result, energies, pos>>
                    \/ MinimizeEnds(evals')
    /\ UNCHANGED <<obj, r, evars, cvars, gvars>>

\* obj applied on its own to an angle, as a function of theta
ObjApply ==
    /\ pc = "call"
    /\ Len(evals) < MaxEvals
    /\ \E theta \in Thetas : evals' = Append(evals, Obj(theta))
    /\ UNCHANGED <<obj, r, pos, energies, result, pc, ended, evars, cvars, gvars>>

NotebookIdle ==
    /\ table = <<>>
    /\ radii = <<>>
    /\ coeffs = <<>>
    /\ H2_paulis = Unbound
    /\ weights = Unbound
    /\ reduced = 0
    /\ obj = "cell21"
    /\ r = 0
    /\ pos = 0
    /\ energies = <<>>
    /\ evals = <<>>
    /\ result = NoResult
    /\ pc = "off"
    /\ ended = Ended(0, "none", "none")

ExpIdle ==
    /\ circuit = [qregs |-> <<>>, cregs |-> <<>>, gates |-> <<>>]
    /\ pauli_string = <<>>
    /\ shots = 1
    /\ temp = <<>>
    /\ ident = <<>>
    /\ counts = NoCounts
    /\ backend_runs = 0
    /\ out = Pending
    /\ epc = "idle"
    /\ caller_gates = <<>>

InitExp ==
    /\ CostIdle
    /\ NotebookIdle
    /\ circuit \in Circuits
    /\ pauli_string \in Strings(Alphabet, MaxLen)
    /\ shots \in 1..MaxShots
    /\ temp = <<>>
    /\ ident = <<>>
    /\ counts = NoCounts
    /\ backend_runs = 0
    /\ out = Pending
    /\ epc = "ready"
    /\ caller_gates = circuit.gates

NextExp == Expectation

SpecExp == InitExp /\ [][NextExp]_vars

InitCost ==
    /\ ExpIdle
    /\ NotebookIdle
    /\ ccircuit \in {VQE_circuit(t) : t \in 0..1}
    /\ cweights \in Strings({-1, 2}, MaxTerms)
    /\ cpaulis \in Strings({<<"Z", "Z">>, <<"I", "I">>}, MaxTerms)
    /\ cost_terms = <<>>
    /\ cost_out = Pending
    /\ cpc = "ready"

NextCost == CostCall

SpecCost == InitCost /\ [][NextCost]_vars

\* the notebook after cells 4 to 21 were run in order
InitVQE ==
    /\ ExpIdle
    /\ CostIdle
    /\ table = Reduce(Table)
    /\ radii = Column0(table)
    /\ coeffs = ColumnsFrom1(table)
    /\ H2_paulis = Unbound
    /\ weights = Unbound
    /\ reduced = 1
    /\ obj = "cell21"
    /\ r = 0
    /\ pos = 0
    /\ energies = <<>>
    /\ evals = <<>>
    /\ result = NoResult
    /\ pc = "idle"
    /\ ended = Ended(0, "none", "none")

\* cell 7 is run (again): table is the full table; radii and coeffs stay
Cell7 ==
    /\ pc = "idle"
    /\ table' = Table
    /\ reduced' = 0
    /\ UNCHANGED <<radii, coeffs, H2_paulis, weights, evars, cvars, nvars>>

\* cell 9 is run (again) on the table as it is
Cell9 ==
    /\ pc = "idle"
    /\ reduced < MaxReduce
    /\ table' = Reduce(table)
    /\ radii' = Column0(table')
    /\ coeffs' = ColumnsFrom1(table')
    /\ reduced' = reduced + 1
    /\ UNCHANGED <<H2_paulis, weights, evars, cvars, nvars>>

\* the cells of the notebook, run one at a time in any order
NextNotebook ==
    Cell7 \/ Cell9 \/ Cell21 \/ Cell23 \/ Cell28 \/ SweepStep \/ ObjCall

SpecNotebook == InitVQE /\ [][NextNotebook]_vars

\* obj before its first call: the def of cell 21 after cells 4 to 21, or the
\* lambda cell 28 bound in its first iteration (r = 0)
InitObj ==
    /\ ExpIdle
    /\ CostIdle
    /\ table = Reduce(Table)
    /\ radii = Column0(table)
    /\ coeffs = ColumnsFrom1(table)
    /\ H2_paulis = Unbound
    /\ weights = Unbound
    /\ reduced = 1
    /\ obj \in {"cell21", "cell28"}
    /\ r = 0
    /\ pos = 0
    /\ energies = <<>>
    /\ evals = <<>>
    /\ result = NoResult
    /\ pc = "call"
    /\ ended = Ended(0, "none", "none")

NextObj == ObjApply

SpecObj == InitObj /\ [][NextObj]_vars

----------------------------------------------------------------------------
(* Properties of expectation, checked under SpecExp *)

TotalQubits(c) == SumSeq(c.qregs)

OneRegisterEach == Len(circuit.qregs) = 1 /\ Len(circuit.cregs) = 1

HasForeignChar(s) == \E i \in 1..Len(s) : s[i] \notin {"I", "X", "Y", "Z"}

\* C1 as stated: for ANY circuit with n qubits, the string of n symbols I makes
\* expectation return exactly 1 without a backend call (stated here for
\* n >= 1; a circuit without qubits fails it too).
C1_AnyCircuitIdentityIsOne ==
    (epc = "done" /\ TotalQubits(circuit) >= 1
        /\ pauli_string = Repeat("I", TotalQubits(circuit)))
        => (out = Return(1, 1) /\ backend_runs = 0)

\* C1 amended: for a circuit with exactly one quantum register (of n qubits) and
\* exactly one classical register, the string of n symbols I makes expectation
\* return exactly 1, and the backend is not invoked on that call.
C1_IdentityIsOne ==
    (epc = "done" /\ OneRegisterEach /\ pauli_string = Repeat("I", circuit.qregs[1]))
        => (out = Return(1, 1) /\ backend_runs = 0 /\ counts = NoCounts)

C1_Witness ==
    /\ epc = "done"
    /\ circuit.qregs = <<2>> /\ circuit.cregs = <<2>>
    /\ pauli_string = <<"I", "I">>
    /\ out.kind = "return"

\* C2 as stated (granting a circuit with one register of each kind): a string
\* whose length AS PASSED differs from the qubit count always ends in the
\* length-mismatch error.
C2_PassedLengthMismatchFails ==
    (epc = "done" /\ OneRegisterEach /\ Len(pauli_string) # circuit.qregs[1])
        => out = Raise("length")

\* C2 amended: for a circuit with exactly one quantum and one classical register,
\* expectation fails with the length-mismatch error, and returns no value,
\* whenever the Pauli string after upper-casing and stripping of surrounding
\* whitespace has a length different from the qubit count.
C2_LengthMismatchFails ==
    (epc = "done" /\ OneRegisterEach
        /\ Len(Strip(Upper(pauli_string))) # circuit.qregs[1])
        => (out = Raise("length") /\ backend_runs = 0)

C2_Witness ==
    /\ epc = "done"
    /\ circuit.qregs = <<2>> /\ circuit.cregs = <<2>>
    /\ pauli_string = <<"Z">>
    /\ out = Raise("length")

\* C3 as stated (granting one register of each kind and a string as long as the
\* qubit count): a string holding a character outside {I, X, Y, Z} always ends
\* in the invalid-symbol error and never in a returned value.
C3_ForeignCharFails ==
    (epc = "done" /\ OneRegisterEach /\ Len(pauli_string) = circuit.qregs[1]
        /\ HasForeignChar(pauli_string))
        => out = Raise("symbol")

\* C3 amended: when the Pauli string after upper-casing and stripping of
\* surrounding whitespace holds a character outside {I, X, Y, Z}, expectation
\* never returns a value and never runs the backend; the error is the
\* invalid-symbol error when the circuit has exactly one quantum register of n
\* qubits and one classical register of at least n bits and the normalized
\* string has n characters.
C3_InvalidSymbolFails ==
    (epc = "done" /\ HasForeignChar(Strip(Upper(pauli_string))))
        => /\ out.kind = "raise"
           /\ backend_runs = 0
           /\ (OneRegisterEach /\ circuit.cregs[1] >= circuit.qregs[1]
                 /\ Len(Strip(Upper(pauli_string))) = circuit.qregs[1])
                => out = Raise("symbol")

C3_Witness ==
    /\ epc = "done"
    /\ circuit.qregs = <<2>> /\ circuit.cregs = <<2>>
    /\ pauli_string = <<"X", "Q">>
    /\ out = Raise("symbol")

\* C5: a circuit that does not have exactly one quantum register and exactly
\* one classical register makes expectation fail with the invalid-configuration
\* error whatever the Pauli string is; nothing of the string has been processed
\* by then (no symbol recorded in ident, no gate appended, no backend run).
C5_RegisterCheckFirst ==
    (epc = "done" /\ ~OneRegisterEach)
        => /\ out.kind = "raise"
           /\ out.err = IF Len(circuit.qregs) # 1 THEN "qregs" ELSE "cregs"
           /\ ident = <<>>
           /\ temp = circuit.gates
           /\ backend_runs = 0

C5_Witness ==
    /\ epc = "done"
    /\ circuit.qregs = <<2>> /\ Len(circuit.cregs) = 2
    /\ pauli_string = <<"Q">>
    /\ out = Raise("cregs")

\* qubits the normalized string measures (its non-identity positions)
MeasuredQubits(s) == {q \in 0..(Len(s) - 1) : s[q + 1] # "I"}

\* number of measured qubits that read 1 in a bitstring (bit 0 rightmost)
OnesMeasured(b, M) == Cardinality({q \in M : b[Len(b) - q] = "1"})

ParitySign(b, M) == IF OnesMeasured(b, M) % 2 = 0 THEN 1 ELSE -1

\* C8: a call that measured at least one qubit returns the average over the
\* shots of +1 / -1, +1 for a bitstring in which an even number of the measured
\* qubits read 1 and -1 for an odd number, for any number of qubits.
C8_ParityOfOnes ==
    (epc = "done" /\ out.kind = "return" /\ backend_runs = 1)
        => LET M == MeasuredQubits(Strip(Upper(pauli_string))) IN
           /\ out.den = shots
           /\ out.num = SumOver([b \in DOMAIN counts |-> ParitySign(b, M) * counts[b]],
                                DOMAIN counts)

\* C9: every value expectation returns lies in [-1, 1].
C9_ValueInRange ==
    (epc = "done" /\ out.kind = "return")
        => (out.den >= 1 /\ -out.den <= out.num /\ out.num <= out.den)

C9_Witness ==
    /\ epc = "done"
    /\ out.kind = "return"
    /\ backend_runs = 1
    /\ shots = 2
    /\ out.num = -2

----------------------------------------------------------------------------
(* Properties of cost, checked under SpecCost *)

\* C4: cost fails with the length-mismatch error whenever weights and paulis
\* differ in length, and no Pauli term has been estimated by then.
C4_CostLengthMismatchFails ==
    (cpc = "done" /\ Len(cweights) # Len(cpaulis))
        => (cost_out = Raise("length") /\ cost_terms = <<>> /\ backend_runs = 0)

C4_Witness ==
    /\ cpc = "done"
    /\ Len(cweights) = 3 /\ Len(cpaulis) = 2
    /\ cost_out = Raise("length")

RECURSIVE ProdDen(_)
ProdDen(t) == IF t = <<>> THEN 1 ELSE Head(t).den * ProdDen(Tail(t))

\* sum of w[i] * t[i] over the common denominator ProdDen(t)
WeightedSum(w, t) ==
    [num |-> SumSeq([i \in 1..Len(t) |-> w[i] * t[i].num * (ProdDen(t) \div t[i].den)]),
     den |-> ProdDen(t)]

\* C6: with weights and paulis of equal length, cost returns the number
\* sum_i weights[i] * expectation(circuit, paulis[i]), every term estimated on
\* that call (stated here for lists that are not empty; empty lists fail it
\* too).
C6_CostIsWeightedSum ==
    (cpc = "done" /\ Len(cweights) = Len(cpaulis) /\ cweights # <<>>)
        => /\ cost_out.kind = "return"
           /\ Len(cost_terms) = Len(cpaulis)
           /\ cost_out.num * WeightedSum(cweights, cost_terms).den
                = WeightedSum(cweights, cost_terms).num * cost_out.den

----------------------------------------------------------------------------
(* Properties of the sweep (SpecNotebook) and of the objective (SpecObj) *)

\* C7: the sweep yields one energy per radius, in order: while cell 28 runs
\* energies has one entry per completed iteration, and when the cell has ended
\* energies is as long as radii.
C7_OneEnergyPerRadius ==
    /\ pc \in {"loop28", "min28"} => Len(energies) = pos
    /\ (pc = "idle" /\ ended.cell = 28) => Len(energies) = Len(radii)

\* C10: every evaluation obj(theta) the minimizer makes builds the ansatz from
\* the theta it supplied, so evaluations at different theta use different
\* circuits.
C10_ObjectiveUsesTheta ==
    /\ \A i \in 1..Len(evals) :
          \E j \in 1..Len(evals[i].circ.gates) :
             /\ evals[i].circ.gates[j].g = "rz"
             /\ evals[i].circ.gates[j].p = Rad(evals[i].theta)
    /\ \A i, l \in 1..Len(evals) :
          evals[i].theta # evals[l].theta => evals[i].circ # evals[l].circ

----------------------------------------------------------------------------
(* Properties of the table reduction, checked under SpecNotebook *)

Rows(t) == {t[i] : i \in 1..Len(t)}

\* C11 as stated: the table of cell 7 has 50 rows; one run of cell 9 keeps its
\* rows 0, 2, 4, ..., 25 of them, reaching the end of the table at half density
\* (every row of the table is a kept row or the row after one), with radii and
\* coeffs taken from the same rows.
C11_HalfOfFiftyRows ==
    /\ reduced = 0 => Len(table) = 50
    /\ reduced = 1 =>
         /\ Len(table) = 25 /\ Len(radii) = 25 /\ Len(coeffs) = 25
         /\ \A i \in 1..Len(table) :
               /\ table[i] = Table[2 * (i - 1) + 1]
               /\ <<radii[i]>> \o coeffs[i] = table[i]
         /\ \A j \in 1..Len(Table) :
               Table[j] \in Rows(table) \/ (j > 1 /\ Table[j - 1] \in Rows(table))

\* C11 amended: the table of cell 7 has 54 rows; one run of cell 9 keeps rows
\* 0, 2, 4, ..., 48 of it, the 25 even rows among its first 50, so the sweep
\* runs over 25 bond lengths; the last four rows (R = 2.70 to 2.85) are not
\* covered; radii and coeffs are taken from the same rows.
C11_HalfOfFirstFifty ==
    /\ reduced = 0 => Len(table) = 54
    /\ reduced = 1 =>
         /\ Len(table) = 25 /\ Len(radii) = 25 /\ Len(coeffs) = 25
         /\ \A i \in 1..Len(table) :
               /\ table[i] = Table[2 * (i - 1) + 1]
               /\ <<radii[i]>> \o coeffs[i] = table[i]
         /\ \A j \in 51..54 : Table[j] \notin Rows(table)
    /\ pc \in {"loop28", "min28"} => Len(radii) = Len(coeffs)

C11_Witness ==
    /\ pc = "loop28"
    /\ reduced = 1
    /\ Len(radii) = 25
    /\ radii[25] = 260000

----------------------------------------------------------------------------
(* Properties of the gates expectation appends, checked under SpecExp *)

\* what one symbol at position q is said to append
AppendedFor(pauli, q) ==
    CASE pauli = "I" -> <<>>
      [] pauli = "X" -> <<Gate("h", None, <<q>>, <<>>), Gate("measure", None, <<q>>, <<q>>)>>
      [] pauli = "Y" -> <<Gate("s", None, <<q>>, <<>>), Gate("h", None, <<q>>, <<>>),
                          Gate("measure", None, <<q>>, <<q>>)>>
      [] pauli = "Z" -> <<Gate("measure", None, <<q>>, <<q>>)>>
      [] OTHER -> <<>>

RECURSIVE AppendedFrom(_, _)
AppendedFrom(s, q) ==
    IF q >= Len(s) THEN <<>> ELSE AppendedFor(s[q + 1], q) \o AppendedFrom(s, q + 1)

MeasureGates(gs) == {i \in 1..Len(gs) : gs[i].g = "measure"}

\* C12: on a call that returned after measuring, temp is the caller's gates
\* followed, for each position q of the (upper-cased, stripped) Pauli string in
\* order, by nothing for I, h and measure for X, s, h and measure for Y, measure
\* for Z; as many measurements were appended as there are non-identity symbols,
\* and every measurement of qubit q writes classical bit q.
C12_AppendedGates ==
    (epc = "done" /\ out.kind = "return" /\ backend_runs = 1)
        => LET ps == Strip(Upper(pauli_string))
               added == SubSeq(temp, Len(circuit.gates) + 1, Len(temp))
           IN  /\ SubSeq(temp, 1, Len(circuit.gates)) = circuit.gates
               /\ added = AppendedFrom(ps, 0)
               /\ Cardinality(MeasureGates(added))
                    = Cardinality({q \in 1..Len(ps) : ps[q] # "I"})
               /\ \A i \in MeasureGates(added) : added[i].c = added[i].q

C12_Witness ==
    /\ epc = "done"
    /\ out.kind = "return"
    /\ backend_runs = 1
    /\ pauli_string = <<"Y", "X">>
    /\ Len(temp) = Len(circuit.gates) + 5

----------------------------------------------------------------------------
(* Frame condition of expectation, checked under SpecExp *)

\* the call ended in one of the validation errors
RaisedValidation == out.kind = "raise"

\* C13: expectation never modifies the circuit it is given: after the call,
\* whether it ended in the identity short-circuit, a normal return or any
\* validation error (an invalid symbol found after gates were appended for
\* earlier symbols included), the caller's circuit holds the gate sequence it
\* held before the call; and a call that raised a validation error has not
\* invoked the backend.
C13_CircuitUntouched ==
    epc = "done"
        => /\ caller_gates = circuit.gates
           /\ RaisedValidation => (backend_runs = 0 /\ counts = NoCounts)

C13_Witness ==
    /\ epc = "done"
    /\ pauli_string = <<"X", "Q">>
    /\ out = Raise("symbol")
    /\ Len(temp) > Len(circuit.gates)
    /\ circuit.gates # <<>>
    /\ caller_gates = circuit.gates
    /\ backend_runs = 0

====
